---- MODULE Spec2Model ----
(***************************************************************************)
(* Model of the ChannelConsumptionContract (src/contracts/consumption.rs)  *)
(* and of its Eip712 component (src/utils/eip712.rs).                      *)
(*                                                                         *)
(* One action per externally callable operation.  Every operation is a     *)
(* pure function from the storage before the call (a record with the       *)
(* contract's storage fields) to an outcome: the storage after the body    *)
(* ran, the result, the events logged and the ordered list of effects.     *)
(* The host commits the outcome of a call that returns Ok and discards     *)
(* the storage writes and the events of a call that returns Err.           *)
(*                                                                         *)
(* U256 is scaled down to 0..MaxU256 and keeps its wrap-around: the `+`    *)
(* of alloy_primitives::U256 is a wrapping addition.  keccak is modelled   *)
(* as an injective constructor (a tuple of what was hashed).               *)
(***************************************************************************)
EXTENDS Integers, Sequences, FiniteSets, TLC

(* ------------------------------ bounds --------------------------------- *)
MaxU256 == 3
MaxEvents == 2

(* ------------------------------ domains -------------------------------- *)
ZeroAddress == "0x0"
Users == {"0xA", "0xB"}
Address == {ZeroAddress} \cup Users
JunkAddress == "0xJunk"
ContractAddress == "0xC0"
U256 == 0..MaxU256
Amounts == {1, MaxU256}
Modulus == MaxU256 + 1
ChainIds == {0, 1}
ContentIds == {7}
Registries == {"0xR"}
Signers == {"0xS"}
Deadlines == {0}
Channels == {"ch1"}
ZeroB256 == <<"zero">>
NAME == "ChannelConsumption"
VERSION == "0.0.1"
Malformed == [kind |-> "malformed"]

VARIABLES
    user_consumptions,
    nutty_content_id,
    content_registry,
    total_consumption,
    owner,
    cached_chain_id,
    cached_domain_separator,
    chainid,
    events,
    mutations,
    applied_sum,
    pushed,
    initialized,
    cache_computed,
    last

vars == <<user_consumptions, nutty_content_id, content_registry, total_consumption,
          owner, cached_chain_id, cached_domain_separator, chainid, events,
          mutations, applied_sum, pushed, initialized, cache_computed, last>>

(* The contract's storage as one value. *)
Storage ==
    [user_consumptions |-> user_consumptions,
     nutty_content_id |-> nutty_content_id,
     content_registry |-> content_registry,
     total_consumption |-> total_consumption,
     owner |-> owner,
     cached_chain_id |-> cached_chain_id,
     cached_domain_separator |-> cached_domain_separator]

(* U256 `+`: wrapping addition. *)
U256Add(a, b) == (a + b) % Modulus

(* ------------------------------- Eip712 -------------------------------- *)
compute_domain_separator(chain) ==
    <<"EIP712Domain", NAME, VERSION, chain, ContractAddress>>

(* domain_separator that stores the live chain id but not the separator. *)
domain_separator_stale(s, chain) ==
    IF chain = s.cached_chain_id
    THEN [st |-> s, ret |-> s.cached_domain_separator, computed |-> FALSE]
    ELSE LET sep == compute_domain_separator(chain)
         IN [st |-> [s EXCEPT !.cached_chain_id = chain],
             ret |-> sep, computed |-> TRUE]

(* domain_separator that recomputes when stale but never stores. *)
domain_separator_uncached(s, chain) ==
    IF chain = s.cached_chain_id
    THEN [st |-> s, ret |-> s.cached_domain_separator, computed |-> FALSE]
    ELSE [st |-> s, ret |-> compute_domain_separator(chain), computed |-> TRUE]

domain_separator(s, chain) ==
    IF chain = s.cached_chain_id
    THEN [st |-> s, ret |-> s.cached_domain_separator, computed |-> FALSE]
    ELSE LET sep == compute_domain_separator(chain)
         IN [st |-> [s EXCEPT !.cached_chain_id = chain,
                              !.cached_domain_separator = sep],
             ret |-> sep, computed |-> TRUE]

read_domain_separator(s, chain) == compute_domain_separator(chain)

struct_hash(user, channel, added, deadline) ==
    <<"ValidateConsumption", user, channel, added, deadline>>

digest_input(sep, sh) == <<"1901", sep, sh>>

(* A well-formed signature is the pair of its signer and the digest signed. *)
Sign(signer, digest) == [kind |-> "sig", signer |-> signer, digest |-> digest]

(* PrecompileEcRecover::ecrecover: an error for a malformed signature, the    *)
(* signer for a signature over this digest, an unrelated address otherwise.  *)
ecrecover(digest, sig) ==
    IF sig.kind = "malformed" THEN [ok |-> FALSE, addr |-> ZeroAddress]
    ELSE IF sig.digest = digest THEN [ok |-> TRUE, addr |-> sig.signer]
    ELSE [ok |-> TRUE, addr |-> JunkAddress]

(* recover_typed_data_signer that turns a recovery error into the zero    *)
(* address.                                                               *)
recover_typed_data_signer_default(s, chain, sh, sig) ==
    LET d == domain_separator(s, chain)
        rec == ecrecover(digest_input(d.ret, sh), sig)
    IN [st |-> d.st, result |-> "Ok", ret |-> rec.addr, sep |-> d.ret,
        computed |-> d.computed]

recover_typed_data_signer(s, chain, sh, sig) ==
    LET d == domain_separator(s, chain)
        rec == ecrecover(digest_input(d.ret, sh), sig)
    IN [st |-> d.st,
        result |-> IF rec.ok THEN "Ok" ELSE "EcRecoverError",
        ret |-> rec.addr,
        sep |-> d.ret,
        computed |-> d.computed]


(* ------------------------ ChannelConsumptionContract ------------------- *)
(* What the registry at `address` can answer to one isAuthorized call: the  *)
(* call reverts, returns no data (no code at the address), or a boolean.    *)
RegistryReplies(address) ==
    IF address = ZeroAddress THEN {"empty"}
    ELSE {"revert", "false", "true"}

call_helper(address, args, reply) ==
    IF reply = "revert" THEN [ok |-> FALSE, ret |-> FALSE, err |-> "revert"]
    ELSE IF reply = "empty" THEN [ok |-> FALSE, ret |-> FALSE, err |-> "decoding error"]
    ELSE [ok |-> TRUE, ret |-> (reply = "true"), err |-> ""]

(* _check_validator_role with the test of has_role inverted. *)
_check_validator_role_inverted(s, validator, reply) ==
    LET registry == s.content_registry
        args == <<s.nutty_content_id, validator>>
        has_role == call_helper(registry, args, reply)
        query == <<"isAuthorized", registry, args[1], args[2]>>
    IN IF ~has_role.ok THEN [result |-> "CallError", query |-> query]
       ELSE IF ~has_role.ret THEN [result |-> "Ok", query |-> query]
       ELSE [result |-> "InvalidPlatformSignature", query |-> query]

(* _check_validator_role that takes a failed call for a granted role. *)
_check_validator_role_call_error_ok(s, validator, reply) ==
    LET registry == s.content_registry
        args == <<s.nutty_content_id, validator>>
        has_role == call_helper(registry, args, reply)
        query == <<"isAuthorized", registry, args[1], args[2]>>
    IN IF ~has_role.ok \/ has_role.ret THEN [result |-> "Ok", query |-> query]
       ELSE [result |-> "InvalidPlatformSignature", query |-> query]

(* _check_validator_role that queries content id 0 instead of the stored  *)
(* one.                                                                    *)
_check_validator_role_zero_id(s, validator, reply) ==
    LET registry == s.content_registry
        args == <<0, validator>>
        has_role == call_helper(registry, args, reply)
        query == <<"isAuthorized", registry, args[1], args[2]>>
    IN IF ~has_role.ok THEN [result |-> "CallError", query |-> query]
       ELSE IF has_role.ret THEN [result |-> "Ok", query |-> query]
       ELSE [result |-> "InvalidPlatformSignature", query |-> query]

_check_validator_role(s, validator, reply) ==
    LET registry == s.content_registry
        args == <<s.nutty_content_id, validator>>
        has_role == call_helper(registry, args, reply)
        query == <<"isAuthorized", registry, args[1], args[2]>>
    IN IF ~has_role.ok THEN [result |-> "CallError", query |-> query]
       ELSE IF has_role.ret THEN [result |-> "Ok", query |-> query]
       ELSE [result |-> "InvalidPlatformSignature", query |-> query]

(* initialize that also refuses once consumption has been recorded. *)
initialize_requires_empty_ledger(s, new_owner, content_id, registry) ==
    IF s.owner # ZeroAddress \/ s.total_consumption # 0
    THEN [st |-> s, result |-> "AlreadyInitialized"]
    ELSE [st |-> [s EXCEPT !.owner = new_owner,
                           !.nutty_content_id = content_id,
                           !.content_registry = registry],
          result |-> "Ok"]

initialize(s, new_owner, content_id, registry) ==
    IF s.owner # ZeroAddress
    THEN [st |-> s, result |-> "AlreadyInitialized"]
    ELSE [st |-> [s EXCEPT !.owner = new_owner,
                           !.nutty_content_id = content_id,
                           !.content_registry = registry],
          result |-> "Ok"]

CcuPushed(user, channel, total) ==
    [user |-> user, channelId |-> channel, totalConsumption |-> total]

(* The ledger update adding the caller's new record to the total. *)
apply_consumption_record_to_total(s, user, channel, added) ==
    LET total == U256Add(s.user_consumptions[user], added)
        ev == CcuPushed(user, channel, total)
        s1 == [s EXCEPT !.user_consumptions[user] = total]
        s2 == [s1 EXCEPT !.total_consumption = U256Add(s1.total_consumption, total)]
    IN [st |-> s2, log |-> <<ev>>,
        trace |-> << <<"log", ev>>, <<"set_user", user, total>>,
                     <<"set_total", s2.total_consumption>> >>]

(* The ledger update without the event. *)
apply_consumption_no_log(s, user, channel, added) ==
    LET total == U256Add(s.user_consumptions[user], added)
        s1 == [s EXCEPT !.user_consumptions[user] = total]
        s2 == [s1 EXCEPT !.total_consumption = U256Add(s1.total_consumption, added)]
    IN [st |-> s2, log |-> <<>>,
        trace |-> << <<"set_user", user, total>>,
                     <<"set_total", s2.total_consumption>> >>]

(* The ledger update that stores both counters before it logs. *)
apply_consumption_store_first(s, user, channel, added) ==
    LET total == U256Add(s.user_consumptions[user], added)
        ev == CcuPushed(user, channel, total)
        s1 == [s EXCEPT !.user_consumptions[user] = total]
        s2 == [s1 EXCEPT !.total_consumption = U256Add(s1.total_consumption, added)]
    IN [st |-> s2, log |-> <<ev>>,
        trace |-> << <<"set_user", user, total>>,
                     <<"set_total", s2.total_consumption>>, <<"log", ev>> >>]

(* The ledger update of push_ccu: read the record, add, log, store the    *)
(* record, add to the total.                                              *)
apply_consumption(s, user, channel, added) ==
    LET total == U256Add(s.user_consumptions[user], added)
        ev == CcuPushed(user, channel, total)
        s1 == [s EXCEPT !.user_consumptions[user] = total]
        s2 == [s1 EXCEPT !.total_consumption = U256Add(s1.total_consumption, added)]
    IN [st |-> s2, log |-> <<ev>>,
        trace |-> << <<"log", ev>>, <<"set_user", user, total>>,
                     <<"set_total", s2.total_consumption>> >>]

(* push_ccu that credits the user named in the signed payload instead of  *)
(* the caller.                                                             *)
push_ccu_payload_user(s, chain, sender, channel, added, deadline, sig, reply) ==
    LET user == IF sig.kind = "sig" THEN sig.digest[3][2] ELSE sender
        sh == struct_hash(user, channel, added, deadline)
        rec == recover_typed_data_signer(s, chain, sh, sig)
    IN IF rec.result # "Ok"
       THEN [st |-> rec.st, result |-> rec.result, log |-> <<>>,
             trace |-> << <<"ecrecover">> >>, auth |-> "none"]
       ELSE
         LET chk == _check_validator_role(rec.st, rec.ret, reply)
         IN IF chk.result # "Ok"
            THEN [st |-> rec.st, result |-> "Ok", log |-> <<>>,
                  trace |-> << <<"ecrecover">>, chk.query>>,
                  auth |-> chk.result]
            ELSE
              LET app == apply_consumption(rec.st, user, channel, added)
              IN [st |-> app.st, result |-> "Ok", log |-> app.log,
                  trace |-> << <<"ecrecover">>, chk.query>> \o app.trace,
                  auth |-> "Ok"]

(* push_ccu that rejects a request whose deadline has passed (deadline 0   *)
(* is before every block).                                                 *)
push_ccu_deadline_checked(s, chain, sender, channel, added, deadline, sig, reply) ==
    LET user == sender
        sh == struct_hash(user, channel, added, deadline)
        rec == recover_typed_data_signer(s, chain, sh, sig)
    IN IF deadline = 0
       THEN [st |-> s, result |-> "SignatureExpired", log |-> <<>>,
             trace |-> << <<"ecrecover">> >>, auth |-> "none"]
       ELSE IF rec.result # "Ok"
       THEN [st |-> rec.st, result |-> rec.result, log |-> <<>>,
             trace |-> << <<"ecrecover">> >>, auth |-> "none"]
       ELSE
         LET chk == _check_validator_role(rec.st, rec.ret, reply)
         IN IF chk.result # "Ok"
            THEN [st |-> rec.st, result |-> "Ok", log |-> <<>>,
                  trace |-> << <<"ecrecover">>, chk.query>>,
                  auth |-> chk.result]
            ELSE
              LET app == apply_consumption(rec.st, user, channel, added)
              IN [st |-> app.st, result |-> "Ok", log |-> app.log,
                  trace |-> << <<"ecrecover">>, chk.query>> \o app.trace,
                  auth |-> "Ok"]

push_ccu(s, chain, sender, channel, added, deadline, sig, reply) ==
    LET user == sender
        sh == struct_hash(user, channel, added, deadline)
        rec == recover_typed_data_signer(s, chain, sh, sig)
    IN IF rec.result # "Ok"
       THEN [st |-> rec.st, result |-> rec.result, log |-> <<>>,
             trace |-> << <<"ecrecover">> >>, auth |-> "none"]
       ELSE
         LET chk == _check_validator_role(rec.st, rec.ret, reply)
         IN IF chk.result # "Ok"
            THEN [st |-> rec.st, result |-> "Ok", log |-> <<>>,
                  trace |-> << <<"ecrecover">>, chk.query>>,
                  auth |-> chk.result]
            ELSE
              LET app == apply_consumption(rec.st, user, channel, added)
              IN [st |-> app.st, result |-> "Ok", log |-> app.log,
                  trace |-> << <<"ecrecover">>, chk.query>> \o app.trace,
                  auth |-> "Ok"]

(* get_user_consumption that reads the total instead of the record. *)
get_user_consumption_total(s, user) == s.total_consumption

get_user_consumption(s, user) == s.user_consumptions[user]

get_total_consumption(s) == s.total_consumption

(* openzeppelin_stylus Ownable, inherited with #[inherit(Ownable)]: the     *)
(* contract routes its public methods.  Both are restricted to the owner;   *)
(* transfer_ownership rejects the zero address, renounce_ownership stores   *)
(* it.                                                                      *)
transfer_ownership(s, sender, new_owner) ==
    IF s.owner # sender THEN [st |-> s, result |-> "OwnableUnauthorizedAccount"]
    ELSE IF new_owner = ZeroAddress THEN [st |-> s, result |-> "OwnableInvalidOwner"]
    ELSE [st |-> [s EXCEPT !.owner = new_owner], result |-> "Ok"]

renounce_ownership(s, sender) ==
    IF s.owner # sender THEN [st |-> s, result |-> "OwnableUnauthorizedAccount"]
    ELSE [st |-> [s EXCEPT !.owner = ZeroAddress], result |-> "Ok"]

(* The entrypoint: a call that returns Err reverts, its storage writes and  *)
(* its events are discarded.                                                *)
Committed(s, out) == IF out.result = "Ok" THEN out.st ELSE s

Logged(out) == IF out.result = "Ok" THEN out.log ELSE <<>>

Store(s) ==
    /\ user_consumptions' = s.user_consumptions
    /\ nutty_content_id' = s.nutty_content_id
    /\ content_registry' = s.content_registry
    /\ total_consumption' = s.total_consumption
    /\ owner' = s.owner
    /\ cached_chain_id' = s.cached_chain_id
    /\ cached_domain_separator' = s.cached_domain_separator

NoCall ==
    [op |-> "none", result |-> "none", auth |-> "none", arg |-> ZeroAddress,
     ret |-> 0]

(* The signatures a caller can present with a request: a malformed one, or  *)
(* a signer's signature over a request of some user on some chain.          *)
Signatures(channel, added, deadline) ==
    {Malformed} \cup
    {Sign(signer, digest_input(compute_domain_separator(c),
                               struct_hash(u, channel, added, deadline))) :
        signer \in Signers, c \in ChainIds, u \in Users}

(* One push_ccu request with what the environment answers to it. *)
Request(sender, channel, added, deadline, sig, reply) ==
    [sender |-> sender, channel |-> channel, added |-> added,
     deadline |-> deadline, sig |-> sig, reply |-> reply]

(* The requests that can be sent, with the answers the registry can give. *)
RequestsTo(registry) ==
    UNION {{Request(sender, p[1], p[2], p[3], sig, reply) :
               sender \in Users,
               sig \in Signatures(p[1], p[2], p[3]),
               reply \in RegistryReplies(registry)} :
           p \in Channels \X Amounts \X Deadlines}

RequestTable ==
    [registry \in {ZeroAddress} \cup Registries |-> RequestsTo(registry)]

Requests(registry) == RequestTable[registry]

(* ------------------------------ state machine -------------------------- *)
Init ==
    /\ user_consumptions = [u \in Users |-> 0]
    /\ nutty_content_id = 0
    /\ content_registry = ZeroAddress
    /\ total_consumption = 0
    /\ owner = ZeroAddress
    /\ cached_chain_id = 0
    /\ cached_domain_separator = ZeroB256
    /\ chainid \in ChainIds
    /\ events = 0
    /\ mutations = 0
    /\ applied_sum = 0
    /\ pushed = {}
    /\ initialized = FALSE
    /\ cache_computed = FALSE
    /\ last = NoCall

Initialize ==
    \E new_owner \in Address, content_id \in ContentIds, registry \in Registries :
        LET out == initialize(Storage, new_owner, content_id, registry)
        IN /\ Store(Committed(Storage, out))
           /\ initialized' = (initialized \/ out.result = "Ok")
           /\ last' = [NoCall EXCEPT !.op = "initialize", !.result = out.result]
           /\ UNCHANGED <<chainid, events, mutations, applied_sum, pushed, cache_computed>>

Applied(out) ==
    /\ out.result = "Ok"
    /\ \E i \in 1..Len(out.trace) : out.trace[i][1] = "set_user"

PushCcu ==
    /\ events < MaxEvents
    /\ mutations < MaxEvents
    /\ \E req \in Requests(content_registry) :
        LET out == push_ccu(Storage, chainid, req.sender, req.channel, req.added,
                            req.deadline, req.sig, req.reply)
            post == Committed(Storage, out)
        IN /\ Store(post)
           /\ events' = events + Len(Logged(out))
           /\ mutations' = IF Applied(out) THEN mutations + 1 ELSE mutations
           /\ applied_sum' = IF Applied(out) THEN applied_sum + req.added
                                             ELSE applied_sum
           /\ pushed' = IF Applied(out) THEN pushed \cup {req.sender} ELSE pushed
           /\ cache_computed' =
                  (cache_computed \/ post.cached_chain_id # cached_chain_id)
           /\ last' = [NoCall EXCEPT !.op = "push_ccu", !.result = out.result,
                                     !.auth = out.auth]
           /\ UNCHANGED <<chainid, initialized>>

GetUserConsumption ==
    \E user \in Users :
        /\ last' = [NoCall EXCEPT !.op = "get_user_consumption", !.result = "Ok",
                                  !.arg = user,
                                  !.ret = get_user_consumption(Storage, user)]
        /\ UNCHANGED <<user_consumptions, nutty_content_id, content_registry,
                       total_consumption, owner, cached_chain_id,
                       cached_domain_separator, chainid, events, mutations,
                       applied_sum, pushed, initialized, cache_computed>>

GetTotalConsumption ==
    /\ last' = [NoCall EXCEPT !.op = "get_total_consumption", !.result = "Ok",
                              !.ret = get_total_consumption(Storage)]
    /\ UNCHANGED <<user_consumptions, nutty_content_id, content_registry,
                   total_consumption, owner, cached_chain_id,
                   cached_domain_separator, chainid, events, mutations,
                   applied_sum, pushed, initialized, cache_computed>>

ReadDomainSeparator ==
    /\ last' = [NoCall EXCEPT !.op = "domainSeparator", !.result = "Ok"]
    /\ UNCHANGED <<user_consumptions, nutty_content_id, content_registry,
                   total_consumption, owner, cached_chain_id,
                   cached_domain_separator, chainid, events, mutations,
                   applied_sum, pushed, initialized, cache_computed>>

TransferOwnership ==
    \E sender \in Users, new_owner \in Address :
        LET out == transfer_ownership(Storage, sender, new_owner)
        IN /\ Store(Committed(Storage, out))
           /\ last' = [NoCall EXCEPT !.op = "transfer_ownership",
                                     !.result = out.result]
           /\ UNCHANGED <<chainid, events, mutations, applied_sum, pushed, initialized,
                         cache_computed>>

RenounceOwnership ==
    \E sender \in Users :
        LET out == renounce_ownership(Storage, sender)
        IN /\ Store(Committed(Storage, out))
           /\ last' = [NoCall EXCEPT !.op = "renounce_ownership",
                                     !.result = out.result]
           /\ UNCHANGED <<chainid, events, mutations, applied_sum, pushed, initialized,
                         cache_computed>>

(* The environment: the chain id the host reports changes (fork, migration). *)
ChainIdChange ==
    \E c \in ChainIds \ {chainid} :
        /\ chainid' = c
        /\ last' = [NoCall EXCEPT !.op = "chainid"]
        /\ UNCHANGED <<user_consumptions, nutty_content_id, content_registry,
                       total_consumption, owner, cached_chain_id,
                       cached_domain_separator, events, mutations,
                       applied_sum, pushed, initialized, cache_computed>>

Next ==
    \/ Initialize
    \/ PushCcu
    \/ GetUserConsumption
    \/ GetTotalConsumption
    \/ ReadDomainSeparator
    \/ TransferOwnership
    \/ RenounceOwnership
    \/ ChainIdChange

Spec == Init /\ [][Next]_vars


(* ------------------------------ properties ----------------------------- *)
(* The outcome the caller and the chain see of one push_ccu request sent in *)
(* the current state: the result, the committed storage, the events logged. *)
PushOutcome(req) ==
    LET out == push_ccu(Storage, chainid, req.sender, req.channel, req.added,
                        req.deadline, req.sig, req.reply)
    IN [result |-> out.result, st |-> Committed(Storage, out), log |-> Logged(out)]

WellFormed(req) == req.sig.kind = "sig"

SumOf(f) == f["0xA"] + f["0xB"]

(* C1: after a first initialize that succeeded, every later initialize      *)
(* fails with AlreadyInitialized and leaves owner, content id and registry  *)
(* unchanged.                                                               *)
C1_InitializeOnce ==
    [][(initialized /\ last'.op = "initialize")
        => /\ last'.result = "AlreadyInitialized"
           /\ owner' = owner
           /\ nutty_content_id' = nutty_content_id
           /\ content_registry' = content_registry]_vars

C2_Push(req) ==
    LET o == PushOutcome(req)
        u == req.sender
    IN (/\ WellFormed(req)
        /\ req.reply = "true"
        /\ user_consumptions[u] + req.added <= MaxU256
        /\ total_consumption + req.added <= MaxU256)
       => /\ o.result = "Ok"
          /\ o.st.user_consumptions[u] = user_consumptions[u] + req.added
          /\ o.st.total_consumption = total_consumption + req.added
          /\ o.log = <<CcuPushed(u, req.channel, o.st.user_consumptions[u])>>

(* C2: an authorized push (the signature recovers, the registry answers     *)
(* true) that does not overflow adds exactly added_consumption to the       *)
(* caller's record and to the total and logs exactly one CcuPushed with the *)
(* caller's new record; and as long as the sum of the applied amounts fits, *)
(* the records add up to it and the total equals it.                        *)
C2_AuthorizedPushAdds ==
    /\ \A req \in Requests(content_registry) : C2_Push(req)
    /\ applied_sum <= MaxU256
         => /\ SumOf(user_consumptions) = applied_sum
            /\ total_consumption = applied_sum

C2_Witness ==
    /\ last.op = "push_ccu"
    /\ last.auth = "Ok"
    /\ mutations = 2
    /\ applied_sum = 2
    /\ user_consumptions["0xA"] = 2
    /\ total_consumption = 2

C3_Push(req) ==
    LET o == PushOutcome(req)
    IN (WellFormed(req) /\ req.reply \in {"revert", "empty", "false"})
       => /\ o.result = "Ok"
          /\ o.st.user_consumptions = user_consumptions
          /\ o.st.total_consumption = total_consumption
          /\ o.log = <<>>

(* C3: when recovery succeeds and the authorization step fails (the query   *)
(* fails or answers false), push_ccu returns Ok, changes no consumption     *)
(* record and not the total, and logs no event.                             *)
C3_UnauthorizedIsNoOp == \A req \in Requests(content_registry) : C3_Push(req)

C3_Witness ==
    /\ last.op = "push_ccu"
    /\ last.result = "Ok"
    /\ last.auth = "InvalidPlatformSignature"
    /\ mutations = 1
    /\ events = 1

C4_Push(req) ==
    LET o == PushOutcome(req)
    IN ~WellFormed(req)
       => /\ o.result = "EcRecoverError"
          /\ o.st = Storage
          /\ o.log = <<>>

(* C4: when recovery rejects the signature, push_ccu fails with             *)
(* EcRecoverError and the committed state is the state before the call:     *)
(* no record, total, context or cache field differs and no event is logged. *)
C4_EcRecoverErrorReverts == \A req \in Requests(content_registry) : C4_Push(req)

C4_Witness ==
    /\ last.op = "push_ccu"
    /\ last.result = "EcRecoverError"
    /\ cached_chain_id # chainid
    /\ total_consumption > 0

C5_Push(req) ==
    LET o == PushOutcome(req)
        u == req.sender
    IN (/\ WellFormed(req)
        /\ req.reply = "true"
        /\ \/ user_consumptions[u] + req.added > MaxU256
           \/ total_consumption + req.added > MaxU256)
       => /\ o.result # "Ok"
          /\ o.st.user_consumptions = user_consumptions
          /\ o.st.total_consumption = total_consumption

(* C5: an authorized push whose amount would take the caller's record or    *)
(* the total above the largest U256 fails and changes neither.              *)
C5_OverflowFails == \A req \in Requests(content_registry) : C5_Push(req)

(* C6: in every reachable state the total consumption is the sum of the     *)
(* users' consumption records.                                              *)
C6_TotalIsSumOfRecords == total_consumption = SumOf(user_consumptions)

C7_Push(req) ==
    LET out == push_ccu(Storage, chainid, req.sender, req.channel, req.added,
                        req.deadline, req.sig, req.reply)
    IN Len(Logged(out)) = IF Applied(out) THEN 1 ELSE 0

(* C7: the number of CcuPushed events logged equals the number of push_ccu  *)
(* calls that wrote the ledger; a push that is a no-op or fails logs none.  *)
C7_OneEventPerMutation ==
    /\ events = mutations
    /\ \A req \in Requests(content_registry) : C7_Push(req)

C7_Witness ==
    /\ events = 1
    /\ mutations = 1
    /\ total_consumption = 1
    /\ last.op = "push_ccu"
    /\ last.auth = "CallError"

(* C8: when the live chain id is the one the separator was last computed    *)
(* and cached for, domain_separator() returns the cached value, leaves the  *)
(* cache alone, and the value is the freshly computed separator; when the   *)
(* live chain id differs from cached_chain_id it returns the recomputed     *)
(* separator and stores it with the live chain id.                          *)
C8_DomainSeparatorCache ==
    LET d == domain_separator(Storage, chainid)
        fresh == compute_domain_separator(chainid)
    IN /\ (cache_computed /\ cached_chain_id = chainid)
            => /\ d.ret = cached_domain_separator
               /\ d.st = Storage
               /\ d.ret = fresh
       /\ cached_chain_id # chainid
            => /\ d.ret = fresh
               /\ d.st.cached_chain_id = chainid
               /\ d.st.cached_domain_separator = fresh
               /\ d.st = [Storage EXCEPT !.cached_chain_id = chainid,
                                         !.cached_domain_separator = fresh]

C8_Witness ==
    /\ last.op = "push_ccu"
    /\ last.result = "Ok"
    /\ cache_computed
    /\ chainid = 1
    /\ cached_chain_id = 1
    /\ cached_domain_separator = compute_domain_separator(1)

(* C9: once initialize has succeeded and the owner is set, no operation     *)
(* makes the owner the zero address again or changes the content id or the  *)
(* registry address.                                                        *)
C9_StaysActive ==
    [][(initialized /\ owner # ZeroAddress)
        => /\ owner' # ZeroAddress
           /\ nutty_content_id' = nutty_content_id
           /\ content_registry' = content_registry]_vars

C10_Push(req) ==
    (WellFormed(req) /\ req.reply = "revert")
    => LET failed == PushOutcome([req EXCEPT !.reply = "revert"])
           refused == PushOutcome([req EXCEPT !.reply = "false"])
       IN /\ failed = refused
          /\ failed.result = "Ok"
          /\ failed.log = <<>>

(* C10: for the same state and the same request, the run in which the       *)
(* authorization query fails and the run in which it answers false give     *)
(* the caller the same result, the same committed state and the same        *)
(* (empty) events.                                                          *)
C10_FailureAndFalseAlike ==
    content_registry # ZeroAddress => \A req \in Requests(content_registry) : C10_Push(req)

C10_Witness ==
    /\ last.op = "push_ccu"
    /\ last.result = "Ok"
    /\ last.auth = "CallError"
    /\ content_registry # ZeroAddress
    /\ cached_chain_id = chainid
    /\ cache_computed

(* C11: get_user_consumption and get_total_consumption succeed in every     *)
(* state, return the stored record and the stored total, change no stored   *)
(* state, and get_user_consumption returns zero for a user no push was      *)
(* applied for.                                                             *)
C11_ReadsArePure ==
    [][/\ last'.op = "get_user_consumption"
          => /\ last'.result = "Ok"
             /\ last'.ret = user_consumptions[last'.arg]
             /\ last'.arg \notin pushed => last'.ret = 0
             /\ Storage' = Storage
             /\ events' = events
       /\ last'.op = "get_total_consumption"
          => /\ last'.result = "Ok"
             /\ last'.ret = total_consumption
             /\ Storage' = Storage
             /\ events' = events]_vars

C11_Witness ==
    /\ last.op = "get_user_consumption"
    /\ last.arg = "0xB"
    /\ last.ret = 0
    /\ pushed = {"0xA"}
    /\ total_consumption > 0
    /\ owner = ZeroAddress

(* C12: from deployment on, whenever cached_chain_id equals the live chain  *)
(* id the cached separator is the separator computed for that chain id, so  *)
(* the separator domain_separator() hands to signature verification is the  *)
(* one the read-only domainSeparator returns in the same state.             *)
C12_CacheValidFromDeployment ==
    /\ cached_chain_id = chainid
         => cached_domain_separator = compute_domain_separator(chainid)
    /\ domain_separator(Storage, chainid).ret
         = read_domain_separator(Storage, chainid)

C13_Failing(req) ==
    WellFormed(req) /\ req.reply \in {"revert", "empty", "false"}

(* C13 as stated: a push whose authorization step fails leaves every stored *)
(* field, the Eip712 cache included, as it was, also when the cache was     *)
(* stale at the start of the call.                                          *)
C13_NoStateChangeAtAll ==
    \A req \in Requests(content_registry) :
        C13_Failing(req) => PushOutcome(req).st = Storage

(* C13: a push whose authorization step fails returns Ok, logs nothing and  *)
(* changes no counter and no context field; the Eip712 cache is unchanged   *)
(* when cached_chain_id is the live chain id at the start of the call, and  *)
(* otherwise it is refreshed to the live chain id and its separator.        *)
C13_OnlyCacheRefreshed ==
    \A req \in Requests(content_registry) :
        C13_Failing(req)
        => LET o == PushOutcome(req)
           IN /\ o.result = "Ok"
              /\ o.log = <<>>
              /\ o.st = IF cached_chain_id = chainid
                        THEN Storage
                        ELSE [Storage EXCEPT
                                !.cached_chain_id = chainid,
                                !.cached_domain_separator =
                                    compute_domain_separator(chainid)]

C13_Witness ==
    /\ last.op = "push_ccu"
    /\ last.result = "Ok"
    /\ last.auth = "InvalidPlatformSignature"
    /\ mutations = 0
    /\ events = 0
    /\ cache_computed
    /\ cached_chain_id = 1
    /\ cached_domain_separator = compute_domain_separator(1)

(* C14: no step makes a user's consumption record smaller than it was.      *)
C14_RecordsNeverDecrease ==
    [][\A u \in Users : user_consumptions'[u] >= user_consumptions[u]]_vars

C15_Push(req) ==
    LET o == PushOutcome(req)
    IN /\ \A v \in Users \ {req.sender} :
              o.st.user_consumptions[v] = user_consumptions[v]
       /\ o.st.owner = owner
       /\ o.st.nutty_content_id = nutty_content_id
       /\ o.st.content_registry = content_registry
       /\ \A i \in 1..Len(o.log) : o.log[i].user = req.sender

(* C15: a push_ccu call leaves the record of every user other than its      *)
(* caller, the owner, the content id and the registry address unchanged,    *)
(* for every channel, amount, deadline and signature (one signed for        *)
(* another user included), and every event it logs names the caller.        *)
C15_OnlyTheCallersRecord ==
    \A req \in Requests(content_registry) : C15_Push(req)

C15_Witness ==
    /\ last.op = "push_ccu"
    /\ last.auth = "Ok"
    /\ pushed = {"0xB"}
    /\ user_consumptions["0xA"] = 0
    /\ user_consumptions["0xB"] = MaxU256
    /\ owner = "0xA"

C16_Push(req) ==
    LET out == push_ccu(Storage, chainid, req.sender, req.channel, req.added,
                        req.deadline, req.sig, req.reply)
        t == out.trace
        queries == {i \in 1..Len(t) : t[i][1] = "isAuthorized"}
        writes == {i \in 1..Len(t) : t[i][1] \in {"log", "set_user", "set_total"}}
        recovered ==
            recover_typed_data_signer(
                Storage, chainid,
                struct_hash(req.sender, req.channel, req.added, req.deadline),
                req.sig).ret
    IN /\ t[1] = <<"ecrecover">>
       /\ ~WellFormed(req) => (queries = {} /\ writes = {})
       /\ WellFormed(req)
            => /\ queries = {2}
               /\ t[2] = <<"isAuthorized", content_registry, nutty_content_id,
                           recovered>>
       /\ writes # {} <=> (WellFormed(req) /\ req.reply = "true")
       /\ \A i \in writes : i > 2

(* C16: in one push_ccu call signer recovery is the first step; the         *)
(* isAuthorized query is issued exactly once when recovery succeeded, right *)
(* after it, to the stored registry with the stored content id and the      *)
(* recovered address, and not at all when recovery failed; the event and    *)
(* the two counter writes come after the query and only when it answered    *)
(* true.                                                                    *)
C16_StepsInOrder ==
    \A req \in Requests(content_registry) : C16_Push(req)

C16_Witness ==
    /\ last.op = "push_ccu"
    /\ last.auth = "Ok"
    /\ nutty_content_id = 7
    /\ content_registry = "0xR"
    /\ mutations = 1
    /\ events = 1

C17_Push(req) ==
    LET out == push_ccu(Storage, chainid, req.sender, req.channel, req.added,
                        req.deadline, req.sig, req.reply)
        t == out.trace
        u == req.sender
    IN (WellFormed(req) /\ req.reply = "true")
       => /\ out.result = "Ok"
          /\ Len(t) = 5
          /\ t[3][1] = "log"
          /\ t[4][1] = "set_user"
          /\ t[5][1] = "set_total"
          /\ t[3][2] = CcuPushed(u, req.channel, t[4][3])
          /\ t[4][2] = u
          /\ t[4][3] = U256Add(user_consumptions[u], req.added)
          /\ out.st.user_consumptions[u] = t[4][3]
          /\ out.log = <<t[3][2]>>

(* C17: in a push_ccu that is applied the CcuPushed event is emitted, then  *)
(* the caller's record is stored, then the total; the totalConsumption of   *)
(* the event is the value stored as the caller's record, the U256 sum of    *)
(* the old record and added_consumption.                                    *)
C17_LogThenRecordThenTotal ==
    \A req \in Requests(content_registry) : C17_Push(req)

C17_Witness ==
    /\ last.op = "push_ccu"
    /\ last.auth = "Ok"
    /\ events = 2
    /\ user_consumptions["0xA"] = 1
    /\ user_consumptions["0xB"] = 1
    /\ total_consumption = 2

C18_Push(req) ==
    LET u == req.sender
        first == push_ccu(Storage, chainid, u, req.channel, req.added,
                          req.deadline, req.sig, req.reply)
        second == push_ccu(first.st, chainid, u, req.channel, req.added,
                           req.deadline, req.sig, req.reply)
        once == U256Add(user_consumptions[u], req.added)
    IN (WellFormed(req) /\ req.reply = "true")
       => /\ first.result = "Ok"
          /\ second.result = "Ok"
          /\ first.st.user_consumptions[u] = once
          /\ second.st.user_consumptions[u] = U256Add(once, req.added)
          /\ second.st.total_consumption =
                 U256Add(U256Add(total_consumption, req.added), req.added)
          /\ Len(first.log) = 1
          /\ Len(second.log) = 1
          /\ second.log[1].totalConsumption = U256Add(once, req.added)

(* C18: the same request (caller, channel, amount, deadline, signature)     *)
(* sent twice while the registry keeps answering true is applied twice and  *)
(* logs one event each time, with a deadline that has already passed: no    *)
(* signature is remembered and the deadline is compared with nothing.       *)
C18_ReplayIsApplied ==
    \A req \in Requests(content_registry) : C18_Push(req)

C18_Witness ==
    /\ last.op = "push_ccu"
    /\ last.auth = "Ok"
    /\ mutations = 2
    /\ events = 2
    /\ pushed = {"0xB"}
    /\ user_consumptions["0xB"] = 2
    /\ total_consumption = 2

C19_Push(req) ==
    LET out == push_ccu(Storage, chainid, req.sender, req.channel, req.added,
                        req.deadline, req.sig, req.reply)
        u == req.sender
    IN /\ WellFormed(req)
            => /\ out.trace[2][1] = "isAuthorized"
               /\ out.trace[2][2] = content_registry
               /\ out.trace[2][3] = nutty_content_id
       /\ Applied(out) <=> (WellFormed(req) /\ req.reply = "true")
       /\ ~Applied(out)
            => /\ Committed(Storage, out).user_consumptions = user_consumptions
               /\ Committed(Storage, out).total_consumption = total_consumption
               /\ Logged(out) = <<>>
       /\ Applied(out)
            => /\ out.st.user_consumptions[u]
                     = U256Add(user_consumptions[u], req.added)
               /\ out.st.total_consumption
                     = U256Add(total_consumption, req.added)
               /\ Len(Logged(out)) = 1

====
